---------------------------- MODULE Spec2Model ----------------------------
(***************************************************************************)
(* Voxel world core: coordinate math, block registry, palette, chunk,     *)
(* chunk manager and terrain generator of crates/core and crates/world.   *)
(*                                                                         *)
(* Conventions.  An IVec3 is a record [x, y, z].  Option<T> is a sequence *)
(* of length 0 (None) or 1 (Some).  A Vec is a sequence, so the Rust      *)
(* element v[i] is v[i + 1] here.  A HashMap is a function on its key     *)
(* set.  A method taking &mut self is an operator from the old value and  *)
(* the arguments to a record holding the new value, the value returned    *)
(* and whether the call panicked; the actions apply these operators.      *)
(*                                                                         *)
(* The chunk footprint CHUNK_SIZE x CHUNK_HEIGHT x CHUNK_SIZE is scaled   *)
(* down from 16 x 256 x 16 so that a voxel array fits in a state; every   *)
(* definition is written over the names, never over the numbers.          *)
(***************************************************************************)
EXTENDS Integers, Sequences, FiniteSets, TLC

VARIABLES palette, chunk, manager, block_registry, config, last, steps

vars == <<palette, chunk, manager, block_registry, config, last, steps>>

---------------------------------------------------------------------------
(* Bounds of the model *)

\* chunk width on x and z (16 in math.rs:107)
CHUNK_SIZE == 2

\* chunk height on y (256 in math.rs:108)
CHUNK_HEIGHT == 8

\* number of operations in one behaviour
MaxSteps == 3

\* a block id that no pre-filled palette holds
FreshId == 300

\* the value of `last`: the call made last, with its arguments (pos, id,
\* arg), the value it returned and whether it panicked
Op(op, pos, id, arg, ret, panicked) ==
    [op |-> op, pos |-> pos, id |-> id, arg |-> arg, ret |-> ret, panicked |-> panicked]

---------------------------------------------------------------------------
(* crates/core/src/lib.rs *)

AIR_BLOCK == 0

---------------------------------------------------------------------------
(* crates/core/src/math.rs *)

IVec3(x, y, z) == [x |-> x, y |-> y, z |-> z]

IVec3Sub(a, b) == IVec3(a.x - b.x, a.y - b.y, a.z - b.z)

CHUNK_VOLUME == CHUNK_SIZE * CHUNK_SIZE * CHUNK_HEIGHT

None == <<>>

Some(v) == <<v>>

\* HashMap::new, HashMap::insert and HashMap::remove
MapNew == <<>>

MapInsert(m, k, v) == (k :> v) @@ m

MapRemove(m, k) == [key \in (DOMAIN m) \ {k} |-> m[key]]

\* i32 `/`: the quotient rounded toward zero
TruncDiv(a, b) ==
    LET q == (IF a < 0 THEN -a ELSE a) \div (IF b < 0 THEN -b ELSE b)
    IN  IF (a < 0) = (b < 0) THEN q ELSE -q

\* i32 `%`: the remainder with the sign of the dividend
TruncRem(a, b) == a - b * TruncDiv(a, b)

\* div_euclid that rounds toward zero
div_euclid_Truncating(a, b) == TruncDiv(a, b)

\* rem_euclid that keeps the sign of the dividend
rem_euclid_Truncating(a, b) == TruncRem(a, b)

\* i32::div_euclid as core computes it: q = a / b; if a % b < 0, step q away
div_euclid(a, b) ==
    LET q == TruncDiv(a, b)
    IN  IF TruncRem(a, b) < 0 THEN (IF b > 0 THEN q - 1 ELSE q + 1) ELSE q

\* i32::rem_euclid as core computes it: r = a % b; if r < 0, add |b|
rem_euclid(a, b) ==
    LET r == TruncRem(a, b)
    IN  IF r < 0 THEN (IF b < 0 THEN r - b ELSE r + b) ELSE r

world_to_chunk(world_pos) ==
    IVec3(div_euclid(world_pos.x, CHUNK_SIZE), 0, div_euclid(world_pos.z, CHUNK_SIZE))

world_to_local(world_pos) ==
    IVec3(rem_euclid(world_pos.x, CHUNK_SIZE), world_pos.y, rem_euclid(world_pos.z, CHUNK_SIZE))

chunk_local_to_world(chunk_pos, local_pos) ==
    IVec3(chunk_pos.x * CHUNK_SIZE + local_pos.x,
          local_pos.y,
          chunk_pos.z * CHUNK_SIZE + local_pos.z)

\* local_to_index with the stride of one row for a layer
local_to_index_RowStride(local_pos) ==
    IF \/ local_pos.x < 0 \/ local_pos.x >= CHUNK_SIZE
       \/ local_pos.y < 0 \/ local_pos.y >= CHUNK_HEIGHT
       \/ local_pos.z < 0 \/ local_pos.z >= CHUNK_SIZE
    THEN None
    ELSE Some(local_pos.y * CHUNK_SIZE + local_pos.z * CHUNK_SIZE + local_pos.x)

local_to_index(local_pos) ==
    IF \/ local_pos.x < 0 \/ local_pos.x >= CHUNK_SIZE
       \/ local_pos.y < 0 \/ local_pos.y >= CHUNK_HEIGHT
       \/ local_pos.z < 0 \/ local_pos.z >= CHUNK_SIZE
    THEN None
    ELSE Some(local_pos.y * CHUNK_SIZE * CHUNK_SIZE + local_pos.z * CHUNK_SIZE + local_pos.x)

\* index_to_local that lets the index CHUNK_VOLUME through
index_to_local_PastEnd(index) ==
    IF index > CHUNK_VOLUME
    THEN None
    ELSE LET y == TruncDiv(index, CHUNK_SIZE * CHUNK_SIZE)
             remainder == TruncRem(index, CHUNK_SIZE * CHUNK_SIZE)
             z == TruncDiv(remainder, CHUNK_SIZE)
             x == TruncRem(remainder, CHUNK_SIZE)
         IN  Some(IVec3(x, y, z))

index_to_local(index) ==
    IF index >= CHUNK_VOLUME
    THEN None
    ELSE LET y == TruncDiv(index, CHUNK_SIZE * CHUNK_SIZE)
             remainder == TruncRem(index, CHUNK_SIZE * CHUNK_SIZE)
             z == TruncDiv(remainder, CHUNK_SIZE)
             x == TruncRem(remainder, CHUNK_SIZE)
         IN  Some(IVec3(x, y, z))

---------------------------------------------------------------------------
(* crates/core/src/registry.rs: BlockDef and BlockRegistry *)

BlockDef_new(id, name, kind, texture_id) ==
    [id |-> id, name |-> name, kind |-> kind, texture_id |-> texture_id]

BlockDef_air == BlockDef_new(AIR_BLOCK, "air", "Air", 0)

BlockDef_stone == BlockDef_new(1, "stone", "Solid", 1)

BlockDef_dirt == BlockDef_new(2, "dirt", "Solid", 2)

BlockDef_grass == BlockDef_new(3, "grass", "Solid", 3)

BlockDef_wood == BlockDef_new(4, "wood", "Solid", 4)

BlockRegistry_register(registry, block) ==
    [blocks     |-> MapInsert(registry.blocks, block.id, block),
     name_to_id |-> MapInsert(registry.name_to_id, block.name, block.id)]

BlockRegistry_new ==
    LET r0 == [blocks |-> MapNew, name_to_id |-> MapNew]
        r1 == BlockRegistry_register(r0, BlockDef_air)
        r2 == BlockRegistry_register(r1, BlockDef_stone)
        r3 == BlockRegistry_register(r2, BlockDef_dirt)
        r4 == BlockRegistry_register(r3, BlockDef_grass)
    IN  BlockRegistry_register(r4, BlockDef_wood)

BlockRegistry_get(registry, id) ==
    IF id \in DOMAIN registry.blocks THEN Some(registry.blocks[id]) ELSE None

BlockRegistry_get_by_name(registry, name) ==
    IF name \in DOMAIN registry.name_to_id
    THEN BlockRegistry_get(registry, registry.name_to_id[name])
    ELSE None

\* BlockKind::is_solid and BlockKind::is_air of lib.rs
BlockKind_is_solid(kind) == kind = "Solid"

BlockKind_is_air(kind) == kind = "Air"

BlockRegistry_get_kind(registry, id) ==
    LET found == BlockRegistry_get(registry, id)
    IN  IF found # None THEN found[1].kind ELSE "Air"

BlockRegistry_is_solid(registry, id) == BlockKind_is_solid(BlockRegistry_get_kind(registry, id))

BlockRegistry_is_air(registry, id) ==
    id = AIR_BLOCK \/ BlockKind_is_air(BlockRegistry_get_kind(registry, id))

---------------------------------------------------------------------------
(* crates/core/src/registry.rs: Palette *)

\* the palette index at which add_block panics
PALETTE_OVERFLOW == 255

\* add_block with the capacity check moved in front of the lookup
Palette_add_block_ChecksFirst(p, block_id) ==
    LET palette_id == Len(p.id_to_block) % 256
    IN  IF palette_id = PALETTE_OVERFLOW
        THEN [palette |-> p, ret |-> -1, panicked |-> TRUE]
        ELSE IF block_id \in DOMAIN p.block_to_id
        THEN [palette |-> p, ret |-> p.block_to_id[block_id], panicked |-> FALSE]
        ELSE [palette  |-> [id_to_block |-> Append(p.id_to_block, block_id),
                            block_to_id |-> MapInsert(p.block_to_id, block_id, palette_id)],
              ret      |-> palette_id,
              panicked |-> FALSE]

\* add_block that takes one entry more before it panics
Palette_add_block_OneMore(p, block_id) ==
    IF block_id \in DOMAIN p.block_to_id
    THEN [palette |-> p, ret |-> p.block_to_id[block_id], panicked |-> FALSE]
    ELSE LET palette_id == Len(p.id_to_block) % 256
         IN  IF palette_id = PALETTE_OVERFLOW + 1
             THEN [palette |-> p, ret |-> -1, panicked |-> TRUE]
             ELSE [palette  |-> [id_to_block |-> Append(p.id_to_block, block_id),
                                 block_to_id |-> MapInsert(p.block_to_id, block_id, palette_id)],
                   ret      |-> palette_id,
                   panicked |-> FALSE]

\* add_block without the lookup: every call appends
Palette_add_block_NoLookup(p, block_id) ==
    LET palette_id == Len(p.id_to_block) % 256
    IN  IF palette_id = PALETTE_OVERFLOW
        THEN [palette |-> p, ret |-> -1, panicked |-> TRUE]
        ELSE [palette  |-> [id_to_block |-> Append(p.id_to_block, block_id),
                            block_to_id |-> MapInsert(p.block_to_id, block_id, palette_id)],
              ret      |-> palette_id,
              panicked |-> FALSE]

\* Palette::add_block on palette p: the palette afterwards, the index
\* returned, and whether the call panicked (then p is untouched)
Palette_add_block(p, block_id) ==
    IF block_id \in DOMAIN p.block_to_id
    THEN [palette |-> p, ret |-> p.block_to_id[block_id], panicked |-> FALSE]
    ELSE LET palette_id == Len(p.id_to_block) % 256
         IN  IF palette_id = PALETTE_OVERFLOW
             THEN [palette |-> p, ret |-> -1, panicked |-> TRUE]
             ELSE [palette  |-> [id_to_block |-> Append(p.id_to_block, block_id),
                                 block_to_id |-> MapInsert(p.block_to_id, block_id, palette_id)],
                   ret      |-> palette_id,
                   panicked |-> FALSE]

\* Palette::new without the air entry
Palette_new_Empty == [id_to_block |-> <<>>, block_to_id |-> MapNew]

Palette_new ==
    Palette_add_block([id_to_block |-> <<>>, block_to_id |-> MapNew], AIR_BLOCK).palette

Palette_get_block(p, palette_id) ==
    IF palette_id < Len(p.id_to_block) THEN p.id_to_block[palette_id + 1] ELSE AIR_BLOCK

Palette_get_palette_id(p, block_id) ==
    IF block_id \in DOMAIN p.block_to_id THEN Some(p.block_to_id[block_id]) ELSE None

Palette_len(p) == Len(p.id_to_block)

---------------------------------------------------------------------------
(* crates/world/src/chunk.rs: Chunk *)

Chunk_new(position) ==
    [position |-> position,
     palette  |-> Palette_new,
     voxels   |-> [i \in 1..CHUNK_VOLUME |-> 0],
     dirty    |-> FALSE]

Chunk_get_block(c, local_pos) ==
    LET index == local_to_index(local_pos)
    IN  IF index # None
        THEN Palette_get_block(c.palette, c.voxels[index[1] + 1])
        ELSE AIR_BLOCK

\* set_block that stores the index and drops the palette that holds it
Chunk_set_block_KeepsPalette(c, local_pos, block_id) ==
    LET index == local_to_index(local_pos)
        added == Palette_add_block(c.palette, block_id)
    IN  IF index = None
        THEN [chunk |-> c, panicked |-> FALSE]
        ELSE IF added.panicked
        THEN [chunk |-> c, panicked |-> TRUE]
        ELSE [chunk    |-> [c EXCEPT !.voxels[index[1] + 1] = added.ret, !.dirty = TRUE],
              panicked |-> FALSE]

\* set_block that adds the id to the palette before it checks the bounds
Chunk_set_block_AddsFirst(c, local_pos, block_id) ==
    LET index == local_to_index(local_pos)
        added == Palette_add_block(c.palette, block_id)
    IN  IF added.panicked
        THEN [chunk |-> c, panicked |-> TRUE]
        ELSE IF index = None
        THEN [chunk |-> [c EXCEPT !.palette = added.palette], panicked |-> FALSE]
        ELSE [chunk    |-> [c EXCEPT !.palette = added.palette,
                                     !.voxels[index[1] + 1] = added.ret,
                                     !.dirty = TRUE],
              panicked |-> FALSE]

\* set_block that marks the chunk dirty only when the voxel changes
Chunk_set_block_DirtyOnChange(c, local_pos, block_id) ==
    LET index == local_to_index(local_pos)
        added == Palette_add_block(c.palette, block_id)
    IN  IF index = None
        THEN [chunk |-> c, panicked |-> FALSE]
        ELSE IF added.panicked
        THEN [chunk |-> c, panicked |-> TRUE]
        ELSE [chunk    |-> [c EXCEPT !.palette = added.palette,
                                     !.voxels[index[1] + 1] = added.ret,
                                     !.dirty = c.dirty \/ c.voxels[index[1] + 1] # added.ret],
              panicked |-> FALSE]

\* Chunk::set_block: the chunk afterwards and whether add_block panicked
Chunk_set_block(c, local_pos, block_id) ==
    LET index == local_to_index(local_pos)
        added == Palette_add_block(c.palette, block_id)
    IN  IF index = None
        THEN [chunk |-> c, panicked |-> FALSE]
        ELSE IF added.panicked
        THEN [chunk |-> c, panicked |-> TRUE]
        ELSE [chunk    |-> [c EXCEPT !.palette = added.palette,
                                     !.voxels[index[1] + 1] = added.ret,
                                     !.dirty = TRUE],
              panicked |-> FALSE]

\* fill that takes the index from the old palette and resets the palette after
Chunk_fill_StaleIndex(c, block_id) ==
    LET stale == Palette_add_block(c.palette, block_id)
        added == Palette_add_block(Palette_new, block_id)
    IN  [c EXCEPT !.palette = added.palette,
                  !.voxels = [i \in 1..Len(c.voxels) |-> IF stale.panicked THEN 0 ELSE stale.ret],
                  !.dirty = TRUE]

\* fill that adds the id to the palette the chunk has, without resetting it
Chunk_fill_KeepsPalette(c, block_id) ==
    LET added == Palette_add_block(c.palette, block_id)
    IN  IF added.panicked
        THEN c
        ELSE [c EXCEPT !.palette = added.palette,
                       !.voxels = [i \in 1..Len(c.voxels) |-> added.ret],
                       !.dirty = TRUE]

\* Chunk::fill: the fresh palette holds only air, so add_block cannot panic
Chunk_fill(c, block_id) ==
    LET added == Palette_add_block(Palette_new, block_id)
    IN  [c EXCEPT !.palette = added.palette,
                  !.voxels = [i \in 1..Len(c.voxels) |-> added.ret],
                  !.dirty = TRUE]

\* is_empty that looks at the first palette entry and not at the length
Chunk_is_empty_FirstEntryOnly(c) == Palette_get_block(c.palette, 0) = AIR_BLOCK

Chunk_is_empty(c) ==
    Palette_len(c.palette) = 1 /\ Palette_get_block(c.palette, 0) = AIR_BLOCK

Chunk_count_solid_blocks(c) ==
    IF Chunk_is_empty(c)
    THEN 0
    ELSE Cardinality({i \in 1..Len(c.voxels) :
                        Palette_get_block(c.palette, c.voxels[i]) # AIR_BLOCK})

Chunk_mark_clean(c) == [c EXCEPT !.dirty = FALSE]

Chunk_is_dirty(c) == c.dirty

---------------------------------------------------------------------------
(* crates/world/src/chunk.rs: ChunkManager *)

ChunkManager_new == MapNew

\* get_or_create_chunk that inserts a new chunk whether or not one is loaded
ChunkManager_get_or_create_chunk_AlwaysNew(m, chunk_pos) ==
    MapInsert(m, chunk_pos, Chunk_new(chunk_pos))

\* get_or_create_chunk: the map afterwards; the chunk returned is its value
\* at chunk_pos
ChunkManager_get_or_create_chunk(m, chunk_pos) ==
    IF chunk_pos \in DOMAIN m THEN m ELSE MapInsert(m, chunk_pos, Chunk_new(chunk_pos))

ChunkManager_get_chunk(m, chunk_pos) ==
    IF chunk_pos \in DOMAIN m THEN Some(m[chunk_pos]) ELSE None

ChunkManager_insert_chunk(m, c) == MapInsert(m, c.position, c)

ChunkManager_remove_chunk(m, chunk_pos) ==
    [manager |-> MapRemove(m, chunk_pos), ret |-> ChunkManager_get_chunk(m, chunk_pos)]

\* get_block that looks the chunk up with get_or_create_chunk
ChunkManager_get_block_Creates(m, world_pos) ==
    LET chunk_pos == world_to_chunk(world_pos)
        local_pos == world_to_local(world_pos)
        created == ChunkManager_get_or_create_chunk(m, chunk_pos)
    IN  [manager |-> created, ret |-> Chunk_get_block(created[chunk_pos], local_pos)]

\* get_block takes &self: the map afterwards is the map before
ChunkManager_get_block(m, world_pos) ==
    LET chunk_pos == world_to_chunk(world_pos)
        local_pos == world_to_local(world_pos)
        found == ChunkManager_get_chunk(m, chunk_pos)
    IN  [manager |-> m,
         ret     |-> IF found # None THEN Chunk_get_block(found[1], local_pos) ELSE AIR_BLOCK]

\* set_block that looks the chunk up with get_chunk_mut and creates none
ChunkManager_set_block_NoCreate(m, world_pos, block_id) ==
    LET chunk_pos == world_to_chunk(world_pos)
        local_pos == world_to_local(world_pos)
        r == Chunk_set_block(m[chunk_pos], local_pos, block_id)
    IN  IF chunk_pos \in DOMAIN m
        THEN [manager |-> [m EXCEPT ![chunk_pos] = r.chunk], panicked |-> r.panicked]
        ELSE [manager |-> m, panicked |-> FALSE]

\* set_block: the chunk is created before Chunk::set_block runs, so it stays
\* in the map when the write is ignored or panics
ChunkManager_set_block(m, world_pos, block_id) ==
    LET chunk_pos == world_to_chunk(world_pos)
        local_pos == world_to_local(world_pos)
        created == ChunkManager_get_or_create_chunk(m, chunk_pos)
        r == Chunk_set_block(created[chunk_pos], local_pos, block_id)
    IN  [manager |-> [created EXCEPT ![chunk_pos] = r.chunk], panicked |-> r.panicked]

ChunkManager_loaded_chunks(m) == DOMAIN m

ChunkManager_dirty_chunks(m) == {m[p] : p \in {q \in DOMAIN m : Chunk_is_dirty(m[q])}}

ChunkManager_chunk_count(m) == Cardinality(DOMAIN m)

\* unload_distant_chunks that measures the distance on all three axes
ChunkManager_unload_distant_chunks_3D(m, center, max_distance) ==
    LET max_distance_sq == max_distance * max_distance
        keep(chunk_pos) ==
            LET diff == IVec3Sub(chunk_pos, center)
                distance_sq == diff.x * diff.x + diff.y * diff.y + diff.z * diff.z
            IN  distance_sq <= max_distance_sq
    IN  [chunk_pos \in {q \in DOMAIN m : keep(q)} |-> m[chunk_pos]]

ChunkManager_unload_distant_chunks(m, center, max_distance) ==
    LET max_distance_sq == max_distance * max_distance
        keep(chunk_pos) ==
            LET diff == IVec3Sub(chunk_pos, center)
                distance_sq == diff.x * diff.x + diff.z * diff.z
            IN  distance_sq <= max_distance_sq
    IN  [chunk_pos \in {q \in DOMAIN m : keep(q)} |-> m[chunk_pos]]

---------------------------------------------------------------------------
(* crates/world/src/generation.rs: TerrainGenerator *)

\* An f64 noise value, threshold or scaled height is held as an integer
\* count of 1/NoiseScale: the noise values are -1, ..., -1/NoiseScale, 0,
\* 1/NoiseScale, ..., 1.
NoiseScale == 10

\* noise::Perlin::get, which lives outside the repository: some function of
\* the seed and the point alone, with values in [-1, 1]
PerlinGet(seed, point) ==
    LET h == seed * 7 + point[1] * 13 + point[2] * 17
               + (IF Len(point) > 2 THEN point[3] * 5 ELSE 0)
    IN  (h % (2 * NoiseScale + 1)) - NoiseScale

\* `as i32` of an f64 given in 1/NoiseScale: the fraction is dropped
F64AsI32(scaled) == TruncDiv(scaled, NoiseScale)

\* i32::clamp
Clamp(v, lo, hi) == IF v < lo THEN lo ELSE IF v > hi THEN hi ELSE v

Abs(v) == IF v < 0 THEN -v ELSE v

TerrainGenerator_new(cfg) ==
    [config       |-> cfg,
     height_noise |-> cfg.seed,
     cave_noise   |-> cfg.seed + 1,
     registry     |-> BlockRegistry_new]

\* get_height without the clamp
HeightFromNoise_Unclamped(cfg, height) ==
    LET scaled_height == height * cfg.height_scale
    IN  cfg.sea_level + F64AsI32(scaled_height)

\* get_height from the noise value on: lines 64-67
HeightFromNoise(cfg, height) ==
    LET scaled_height == height * cfg.height_scale
        final_height == cfg.sea_level + F64AsI32(scaled_height)
    IN  Clamp(final_height, 0, cfg.max_height)

TerrainGenerator_get_height(gen, x, z) ==
    HeightFromNoise(gen.config,
                    PerlinGet(gen.height_noise,
                              <<x * gen.config.height_frequency,
                                z * gen.config.height_frequency>>))

\* is_cave from the noise value on: line 82
CaveFromNoise(cfg, cave_value) == Abs(cave_value) < cfg.cave_threshold

\* the vertical coordinate is halved (* 0.5) before it reaches the noise
TerrainGenerator_is_cave(gen, x, y, z) ==
    IF y <= 5 \/ y >= gen.config.max_height - 5
    THEN FALSE
    ELSE CaveFromNoise(gen.config,
                       PerlinGet(gen.cave_noise,
                                 <<x * gen.config.cave_frequency,
                                   TruncDiv(y * gen.config.cave_frequency, 2),
                                   z * gen.config.cave_frequency>>))

\* registry.get_by_name(name).unwrap().id
IdByName(gen, name) == BlockRegistry_get_by_name(gen.registry, name)[1].id

\* get_block_at with a dirt band one block thinner
TerrainGenerator_get_block_at_ThinDirt(gen, world_pos) ==
    LET height == TerrainGenerator_get_height(gen, world_pos.x, world_pos.z)
    IN  IF world_pos.y > height THEN IdByName(gen, "air")
        ELSE IF TerrainGenerator_is_cave(gen, world_pos.x, world_pos.y, world_pos.z)
        THEN IdByName(gen, "air")
        ELSE IF world_pos.y <= 0 THEN IdByName(gen, "stone")
        ELSE IF world_pos.y = height THEN IdByName(gen, "grass")
        ELSE IF world_pos.y >= height - 2 THEN IdByName(gen, "dirt")
        ELSE IdByName(gen, "stone")

\* get_block_at that tests for the surface before it tests for a cave
TerrainGenerator_get_block_at_SurfaceFirst(gen, world_pos) ==
    LET height == TerrainGenerator_get_height(gen, world_pos.x, world_pos.z)
    IN  IF world_pos.y > height THEN IdByName(gen, "air")
        ELSE IF world_pos.y <= 0 THEN IdByName(gen, "stone")
        ELSE IF world_pos.y = height THEN IdByName(gen, "grass")
        ELSE IF TerrainGenerator_is_cave(gen, world_pos.x, world_pos.y, world_pos.z)
        THEN IdByName(gen, "air")
        ELSE IF world_pos.y >= height - 3 THEN IdByName(gen, "dirt")
        ELSE IdByName(gen, "stone")

TerrainGenerator_get_block_at(gen, world_pos) ==
    LET height == TerrainGenerator_get_height(gen, world_pos.x, world_pos.z)
    IN  IF world_pos.y > height THEN IdByName(gen, "air")
        ELSE IF TerrainGenerator_is_cave(gen, world_pos.x, world_pos.y, world_pos.z)
        THEN IdByName(gen, "air")
        ELSE IF world_pos.y <= 0 THEN IdByName(gen, "stone")
        ELSE IF world_pos.y = height THEN IdByName(gen, "grass")
        ELSE IF world_pos.y >= height - 3 THEN IdByName(gen, "dirt")
        ELSE IdByName(gen, "stone")

\* the n-th local position the loops of generate_chunk visit (n from 0):
\* local_x outermost, then local_z, then local_y
GenerateOrder(n) ==
    IVec3(n \div (CHUNK_SIZE * CHUNK_HEIGHT),
          n % CHUNK_HEIGHT,
          (n \div CHUNK_HEIGHT) % CHUNK_SIZE)

\* iterations lo..hi of the loops of generate_chunk on acc = [chunk, panicked]
\* (the range is halved, and the left half evaluated before the right half
\* starts, so that the evaluation stays shallow)
RECURSIVE GenerateRange(_, _, _, _)
GenerateRange(gen, acc, lo, hi) ==
    IF lo > hi \/ acc.panicked THEN acc
    ELSE IF lo = hi
    THEN LET local_pos == GenerateOrder(lo)
             world_pos == IVec3(acc.chunk.position.x * CHUNK_SIZE + local_pos.x,
                                local_pos.y,
                                acc.chunk.position.z * CHUNK_SIZE + local_pos.z)
             block_id == TerrainGenerator_get_block_at(gen, world_pos)
         IN  Chunk_set_block(acc.chunk, local_pos, block_id)
    ELSE LET mid == (lo + hi) \div 2
             left == GenerateRange(gen, acc, lo, mid)
         IN  IF left = left THEN GenerateRange(gen, left, mid + 1, hi) ELSE left

\* generate_chunk that takes the blocks of the chunk at the origin
TerrainGenerator_generate_chunk_AtOrigin(gen, chunk_pos) ==
    LET filled == GenerateRange(gen, [chunk |-> Chunk_new(IVec3(0, 0, 0)), panicked |-> FALSE],
                                0, CHUNK_SIZE * CHUNK_SIZE * CHUNK_HEIGHT - 1)
    IN  IF filled.panicked THEN filled
        ELSE [chunk    |-> [Chunk_mark_clean(filled.chunk) EXCEPT !.position = chunk_pos],
              panicked |-> FALSE]

\* generate_chunk: the chunk returned, or panicked
TerrainGenerator_generate_chunk(gen, chunk_pos) ==
    LET filled == GenerateRange(gen, [chunk |-> Chunk_new(chunk_pos), panicked |-> FALSE],
                                0, CHUNK_SIZE * CHUNK_SIZE * CHUNK_HEIGHT - 1)
    IN  IF filled.panicked THEN filled
        ELSE [chunk |-> Chunk_mark_clean(filled.chunk), panicked |-> FALSE]

\* terrain configurations whose surface lies inside the chunk height: rolling
\* ground with caves under it, and steep ground that the clamp cuts off
ConfigHills ==
    [seed |-> 1, sea_level |-> 4, max_height |-> 13, height_scale |-> 3,
     height_frequency |-> 1, cave_frequency |-> 1, cave_threshold |-> 3]

ConfigSteep ==
    [seed |-> 2, sea_level |-> 2, max_height |-> 5, height_scale |-> 20,
     height_frequency |-> 1, cave_frequency |-> 1, cave_threshold |-> 3]

Configs == {ConfigHills, ConfigSteep}

\* TerrainConfig::default(): the frequencies 0.01 and 0.05 are counted in
\* hundredths, the threshold 0.3 in 1/NoiseScale
ConfigDefault ==
    [seed |-> 12345, sea_level |-> 64, max_height |-> 128, height_scale |-> 32,
     height_frequency |-> 1, cave_frequency |-> 5, cave_threshold |-> 3]

\* a configuration whose clamp leaves the single height 0
ConfigFlat ==
    [seed |-> 3, sea_level |-> 4, max_height |-> 0, height_scale |-> 3,
     height_frequency |-> 1, cave_frequency |-> 1, cave_threshold |-> 3]

\* the configurations the generator's pure methods are called with
TerrainConfigs == Configs \cup {ConfigDefault, ConfigFlat}

\* the chunk coordinates the generator is asked for
GenerateCoords == {IVec3(x, 0, z) : x \in -1..2, z \in -1..2} \cup {IVec3(0, 1, 0)}

\* generate_chunk is a function of the configuration and the coordinate
\* alone: its values for the configurations and coordinates in play
GeneratedChunks ==
    [cfg \in Configs |->
        [chunk_pos \in GenerateCoords |->
            TerrainGenerator_generate_chunk(TerrainGenerator_new(cfg), chunk_pos)]]

\* gen.generate_chunk(chunk_pos), looked up where GeneratedChunks holds it
GenerateChunk(gen, chunk_pos) ==
    IF gen.config \in Configs /\ chunk_pos \in GenerateCoords
    THEN GeneratedChunks[gen.config][chunk_pos]
    ELSE TerrainGenerator_generate_chunk(gen, chunk_pos)

\* the n-th chunk coordinate the loops of generate_chunks_around visit
AroundOrder(center, radius, n) ==
    IVec3(center.x - radius + (n \div (2 * radius + 1)),
          0,
          center.z - radius + (n % (2 * radius + 1)))

\* the loop body without the check that the chunk is absent
AroundVisit_Overwrites(gen, acc, chunk_pos) ==
    LET generated == GenerateChunk(gen, chunk_pos)
    IN  IF generated.panicked THEN [acc EXCEPT !.panicked = TRUE]
        ELSE [acc EXCEPT !.manager = ChunkManager_insert_chunk(@, generated.chunk)]

\* the body of the loops of generate_chunks_around at chunk_pos, on
\* acc = [manager, panicked]
AroundVisit(gen, acc, chunk_pos) ==
    LET generated == GenerateChunk(gen, chunk_pos)
    IN  IF ChunkManager_get_chunk(acc.manager, chunk_pos) # None THEN acc
        ELSE IF generated.panicked THEN [acc EXCEPT !.panicked = TRUE]
        ELSE [acc EXCEPT !.manager = ChunkManager_insert_chunk(@, generated.chunk)]

\* iterations lo..hi of the loops of generate_chunks_around
RECURSIVE AroundRange(_, _, _, _, _, _)
AroundRange(gen, center, radius, acc, lo, hi) ==
    IF lo > hi \/ acc.panicked THEN acc
    ELSE IF lo = hi THEN AroundVisit(gen, acc, AroundOrder(center, radius, lo))
    ELSE LET mid == (lo + hi) \div 2
             left == AroundRange(gen, center, radius, acc, lo, mid)
         IN  IF left = left
             THEN AroundRange(gen, center, radius, left, mid + 1, hi)
             ELSE left

\* generate_chunks_around: a negative radius makes both ranges empty
TerrainGenerator_generate_chunks_around(gen, center, radius, m) ==
    IF radius < 0
    THEN [manager |-> m, panicked |-> FALSE]
    ELSE AroundRange(gen, center, radius, [manager |-> m, panicked |-> FALSE],
                     0, (2 * radius + 1) * (2 * radius + 1) - 1)

---------------------------------------------------------------------------
(* Inputs of the palette and chunk operations *)

\* air, a built-in solid id and an id outside every pre-filled palette
InputIds == {AIR_BLOCK, 1, FreshId}

\* in-bounds local positions: the two ends of every axis and a neighbour
InBoundsProbes ==
    {IVec3(0, 0, 0), IVec3(1, 0, 0), IVec3(0, 1, 0), IVec3(0, 0, 1),
     IVec3(CHUNK_SIZE - 1, CHUNK_HEIGHT - 1, CHUNK_SIZE - 1)}

\* out-of-bounds local positions: below and past the end of every axis
OutOfBoundsProbes ==
    {IVec3(-1, 0, 0), IVec3(CHUNK_SIZE, 0, 0),
     IVec3(0, -1, 0), IVec3(0, CHUNK_HEIGHT, 0),
     IVec3(0, 0, -1), IVec3(0, 0, CHUNK_SIZE)}

LocalProbes == InBoundsProbes \cup OutOfBoundsProbes

\* every in-bounds local position
LocalPositions ==
    {IVec3(x, y, z) : x \in 0..(CHUNK_SIZE - 1), y \in 0..(CHUNK_HEIGHT - 1),
                      z \in 0..(CHUNK_SIZE - 1)}

\* the palette after add_block(lo), ..., add_block(hi) on palette p, in that
\* order (the range is halved, and the left half evaluated before the right
\* half starts, so that the evaluation stays shallow)
RECURSIVE PaletteAddRange(_, _, _)
PaletteAddRange(p, lo, hi) ==
    IF lo > hi THEN p
    ELSE IF lo = hi THEN Palette_add_block(p, lo).palette
    ELSE LET mid == (lo + hi) \div 2
             left == PaletteAddRange(p, lo, mid)
         IN  IF left = left THEN PaletteAddRange(left, mid + 1, hi) ELSE left

PaletteAfter(n) == PaletteAddRange(Palette_new, 1, n)

\* the chunk after set_block((0,0,0), lo), ..., set_block((0,0,0), hi) on chunk c
RECURSIVE ChunkSetRange(_, _, _)
ChunkSetRange(c, lo, hi) ==
    IF lo > hi THEN c
    ELSE IF lo = hi THEN Chunk_set_block(c, IVec3(0, 0, 0), lo).chunk
    ELSE LET mid == (lo + hi) \div 2
             left == ChunkSetRange(c, lo, mid)
         IN  IF left = left THEN ChunkSetRange(left, mid + 1, hi) ELSE left

ChunkAfter(n) == ChunkSetRange(Chunk_new(IVec3(0, 0, 0)), 1, n)

\* how many ids the pre-filled palettes hold besides air: a new palette, one
\* with a single free index left, and a full one
Prefills == {0, PALETTE_OVERFLOW - 2, PALETTE_OVERFLOW - 1}

NoPos == IVec3(0, 0, 0)

\* chunk coordinates handed to the chunk manager and the generator
ChunkProbes == {IVec3(0, 0, 0), IVec3(1, 0, 1), IVec3(0, 0, 2), IVec3(0, 1, 0)}

\* world positions handed to the chunk manager: either sign on x and z, a
\* chunk border, two positions of one chunk, and y below, inside and above
\* the chunk height
WorldProbes ==
    {IVec3(0, 0, 0), IVec3(CHUNK_SIZE - 1, 1, 0), IVec3(-1, 0, 0), IVec3(0, 1, -1),
     IVec3(CHUNK_SIZE, CHUNK_HEIGHT - 1, CHUNK_SIZE),
     IVec3(-CHUNK_SIZE - 1, 1, -CHUNK_SIZE - 1),
     IVec3(0, -1, 0), IVec3(CHUNK_SIZE, CHUNK_HEIGHT, 0)}

ManagerIds == {AIR_BLOCK, 1}

Centers == {IVec3(0, 0, 0), IVec3(1, 7, 0)}

Radii == {0, 1, 2}

---------------------------------------------------------------------------
(* One palette and one chunk, driven by their public methods *)

PaletteAddBlock(block_id) ==
    LET r == Palette_add_block(palette, block_id)
    IN  /\ steps < MaxSteps
        /\ palette' = r.palette
        /\ last' = Op("Palette::add_block", NoPos, block_id, 0, r.ret, r.panicked)
        /\ steps' = steps + 1
        /\ UNCHANGED <<chunk, manager, config, block_registry>>

\* let chunk = Chunk::new(position)
ChunkNew(position) ==
    /\ steps < MaxSteps
    /\ chunk' = Chunk_new(position)
    /\ last' = Op("Chunk::new", position, 0, 0, 0, FALSE)
    /\ steps' = steps + 1
    /\ UNCHANGED <<palette, manager, config, block_registry>>

ChunkSetBlock(local_pos, block_id) ==
    LET r == Chunk_set_block(chunk, local_pos, block_id)
    IN  /\ steps < MaxSteps
        /\ chunk' = r.chunk
        /\ last' = Op("Chunk::set_block", local_pos, block_id, 0, 0, r.panicked)
        /\ steps' = steps + 1
        /\ UNCHANGED <<palette, manager, config, block_registry>>

ChunkGetBlock(local_pos) ==
    /\ steps < MaxSteps
    /\ last' = Op("Chunk::get_block", local_pos, 0, 0, Chunk_get_block(chunk, local_pos), FALSE)
    /\ steps' = steps + 1
    /\ UNCHANGED <<palette, chunk, manager, config, block_registry>>

ChunkFill(block_id) ==
    /\ steps < MaxSteps
    /\ chunk' = Chunk_fill(chunk, block_id)
    /\ last' = Op("Chunk::fill", NoPos, block_id, 0, 0, FALSE)
    /\ steps' = steps + 1
    /\ UNCHANGED <<palette, manager, config, block_registry>>

ChunkMarkClean ==
    /\ steps < MaxSteps
    /\ chunk' = Chunk_mark_clean(chunk)
    /\ last' = Op("Chunk::mark_clean", NoPos, 0, 0, 0, FALSE)
    /\ steps' = steps + 1
    /\ UNCHANGED <<palette, manager, config, block_registry>>

\* let chunk = TerrainGenerator::new(cfg).generate_chunk(chunk_pos)
ChunkGenerate(cfg, chunk_pos) ==
    LET r == GenerateChunk(TerrainGenerator_new(cfg), chunk_pos)
    IN  /\ steps < MaxSteps
        /\ config' = cfg
        /\ chunk' = IF r.panicked THEN chunk ELSE r.chunk
        /\ last' = Op("TerrainGenerator::generate_chunk", chunk_pos, 0, 0, 0, r.panicked)
        /\ steps' = steps + 1
        /\ UNCHANGED <<palette, manager, block_registry>>

Init ==
    /\ \E n \in Prefills : palette = PaletteAfter(n) /\ chunk = ChunkAfter(n)
    /\ manager = ChunkManager_new
    /\ block_registry = BlockRegistry_new
    /\ config = ConfigHills
    /\ last = Op("start", NoPos, 0, 0, 0, FALSE)
    /\ steps = 0

Next ==
    \/ \E id \in InputIds : PaletteAddBlock(id)
    \/ \E p \in ChunkProbes : ChunkNew(p)
    \/ \E p \in LocalProbes, id \in InputIds : ChunkSetBlock(p, id)
    \/ \E p \in LocalProbes : ChunkGetBlock(p)
    \/ \E id \in InputIds : ChunkFill(id)
    \/ ChunkMarkClean
    \/ \E cfg \in Configs, p \in ChunkProbes : ChunkGenerate(cfg, p)

Spec == Init /\ [][Next]_vars

---------------------------------------------------------------------------
(* A chunk manager and a terrain generator, driven by their public methods *)

\* the manager's steps are counted against their own bound
MaxManagerSteps == 3

ManagerStep(m, op, cfg) ==
    /\ steps < MaxManagerSteps
    /\ manager' = m
    /\ config' = cfg
    /\ last' = op
    /\ steps' = steps + 1
    /\ UNCHANGED <<palette, chunk, block_registry>>

ManagerGetOrCreateChunk(chunk_pos) ==
    ManagerStep(ChunkManager_get_or_create_chunk(manager, chunk_pos),
                Op("ChunkManager::get_or_create_chunk", chunk_pos, 0, 0, 0, FALSE), config)

ManagerInsertChunk(chunk_pos) ==
    ManagerStep(ChunkManager_insert_chunk(manager, Chunk_new(chunk_pos)),
                Op("ChunkManager::insert_chunk", chunk_pos, 0, 0, 0, FALSE), config)

ManagerRemoveChunk(chunk_pos) ==
    ManagerStep(ChunkManager_remove_chunk(manager, chunk_pos).manager,
                Op("ChunkManager::remove_chunk", chunk_pos, 0, 0, 0, FALSE), config)

\* get_chunk_mut(chunk_pos).map(Chunk::mark_clean), the persistence hook
ManagerMarkClean(chunk_pos) ==
    /\ chunk_pos \in DOMAIN manager
    /\ ManagerStep([manager EXCEPT ![chunk_pos] = Chunk_mark_clean(@)],
                   Op("ChunkManager::get_chunk_mut::mark_clean", chunk_pos, 0, 0, 0, FALSE), config)

ManagerGetBlock(world_pos) ==
    LET r == ChunkManager_get_block(manager, world_pos)
    IN  ManagerStep(r.manager, Op("ChunkManager::get_block", world_pos, 0, 0, r.ret, FALSE), config)

ManagerSetBlock(world_pos, block_id) ==
    LET r == ChunkManager_set_block(manager, world_pos, block_id)
    IN  ManagerStep(r.manager, Op("ChunkManager::set_block", world_pos, block_id, 0, 0, r.panicked), config)

\* ret notes how many dirty chunks the call dropped (the call returns nothing)
ManagerUnloadDistantChunks(center, max_distance) ==
    LET m == ChunkManager_unload_distant_chunks(manager, center, max_distance)
        dropped == {p \in DOMAIN manager : p \notin DOMAIN m /\ Chunk_is_dirty(manager[p])}
    IN  ManagerStep(m, Op("ChunkManager::unload_distant_chunks", center, 0, max_distance,
                          Cardinality(dropped), FALSE), config)

\* TerrainGenerator::new(cfg).generate_chunks_around(center, radius, &mut manager)
ManagerGenerateChunksAround(cfg, center, radius) ==
    LET r == TerrainGenerator_generate_chunks_around(
                 TerrainGenerator_new(cfg), center, radius, manager)
    IN  ManagerStep(r.manager,
                    Op("TerrainGenerator::generate_chunks_around", center, 0, radius, 0, r.panicked), cfg)

InitManager ==
    /\ palette = Palette_new
    /\ chunk = Chunk_new(NoPos)
    /\ manager = ChunkManager_new
    /\ block_registry = BlockRegistry_new
    /\ config = ConfigHills
    /\ last = Op("start", NoPos, 0, 0, 0, FALSE)
    /\ steps = 0

NextManager ==
    \/ \E p \in ChunkProbes : ManagerGetOrCreateChunk(p)
    \/ \E p \in ChunkProbes : ManagerInsertChunk(p)
    \/ \E p \in ChunkProbes : ManagerRemoveChunk(p)
    \/ \E p \in ChunkProbes : ManagerMarkClean(p)
    \/ \E w \in WorldProbes : ManagerGetBlock(w)
    \/ \E w \in WorldProbes, id \in ManagerIds : ManagerSetBlock(w, id)
    \/ \E c \in Centers, r \in Radii : ManagerUnloadDistantChunks(c, r)
    \/ \E cfg \in Configs, c \in Centers, r \in {-1, 0, 1} :
          ManagerGenerateChunksAround(cfg, c, r)

SpecManager == InitManager /\ [][NextManager]_vars

---------------------------------------------------------------------------
(* The free functions of math.rs and the pure methods of the terrain       *)
(* generator, each applied to an argument and its value kept in last.ret   *)

\* world coordinates run over -MaxCoord..MaxCoord on x and z
MaxCoord == 5

\* world positions: either sign on x and z, y below, inside and above the
\* chunk height
MathCoords ==
    {IVec3(x, y, z) : x \in (-MaxCoord)..MaxCoord,
                      y \in {-1, 0, CHUNK_HEIGHT - 1, CHUNK_HEIGHT},
                      z \in (-MaxCoord)..MaxCoord}

\* local positions: every in-bounds one and one step outside on every axis
MathLocals ==
    {IVec3(x, y, z) : x \in (-1)..CHUNK_SIZE, y \in (-1)..CHUNK_HEIGHT, z \in (-1)..CHUNK_SIZE}

\* indices (usize): every valid one and a few past the end
MathIndices == 0..(CHUNK_VOLUME + 2)

\* a call of a function that takes no state and leaves none: what a call
\* returns does not depend on the calls before it, so a behaviour makes one
PureStep(op, cfg) ==
    /\ steps = 0
    /\ steps' = 1
    /\ last' = op
    /\ config' = cfg
    /\ UNCHANGED <<palette, chunk, manager, block_registry>>

MathWorldToChunk(world_pos) ==
    PureStep(Op("world_to_chunk", world_pos, 0, 0, world_to_chunk(world_pos), FALSE), config)

MathWorldToLocal(world_pos) ==
    PureStep(Op("world_to_local", world_pos, 0, 0, world_to_local(world_pos), FALSE), config)

\* chunk_local_to_world(world_to_chunk(w), world_to_local(w))
MathRoundTrip(world_pos) ==
    PureStep(Op("chunk_local_to_world", world_pos, 0, 0,
                chunk_local_to_world(world_to_chunk(world_pos), world_to_local(world_pos)),
                FALSE), config)

MathLocalToIndex(local_pos) ==
    PureStep(Op("local_to_index", local_pos, 0, 0, local_to_index(local_pos), FALSE), config)

MathIndexToLocal(index) ==
    PureStep(Op("index_to_local", NoPos, 0, index, index_to_local(index), FALSE), config)

\* the columns and positions the generator is asked about
TerrainColumns == {IVec3(x, 0, z) : x \in (-MaxCoord)..MaxCoord, z \in (-MaxCoord)..MaxCoord}

TerrainCoords(cfg) ==
    {IVec3(x, y, z) : x \in (-MaxCoord)..MaxCoord,
                      y \in (-1)..(cfg.max_height + 1),
                      z \in (-MaxCoord)..MaxCoord}

TerrainGetHeight(cfg, column) ==
    PureStep(Op("TerrainGenerator::get_height", column, 0, 0,
                TerrainGenerator_get_height(TerrainGenerator_new(cfg), column.x, column.z),
                FALSE), cfg)

\* get_height for the value `height` that the noise may return (arg)
TerrainHeightFromNoise(cfg, height) ==
    PureStep(Op("TerrainGenerator::get_height (noise value)", NoPos, 0, height,
                HeightFromNoise(cfg, height), FALSE), cfg)

TerrainIsCave(cfg, world_pos) ==
    PureStep(Op("TerrainGenerator::is_cave", world_pos, 0, 0,
                TerrainGenerator_is_cave(TerrainGenerator_new(cfg),
                                         world_pos.x, world_pos.y, world_pos.z),
                FALSE), cfg)

TerrainGetBlockAt(cfg, world_pos) ==
    PureStep(Op("TerrainGenerator::get_block_at", world_pos, 0, 0,
                TerrainGenerator_get_block_at(TerrainGenerator_new(cfg), world_pos),
                FALSE), cfg)

\* let height = get_height(x, z), then get_block_at at (x, height, z) and at
\* (x, height + 10, z)
TerrainSurfaceBlocks(cfg, column) ==
    LET gen == TerrainGenerator_new(cfg)
        height == TerrainGenerator_get_height(gen, column.x, column.z)
    IN  PureStep(Op("TerrainGenerator::get_block_at (surface)", column, 0, height,
                    [surface |-> TerrainGenerator_get_block_at(
                                     gen, IVec3(column.x, height, column.z)),
                     above   |-> TerrainGenerator_get_block_at(
                                     gen, IVec3(column.x, height + 10, column.z))],
                    FALSE), cfg)

InitPure ==
    /\ palette = Palette_new
    /\ chunk = Chunk_new(NoPos)
    /\ manager = ChunkManager_new
    /\ block_registry = BlockRegistry_new
    /\ config = ConfigHills
    /\ last = Op("start", NoPos, 0, 0, 0, FALSE)
    /\ steps = 0

\* the test of steps stands in front of the arguments, so that a behaviour
\* that has made its call enumerates none
NextPure ==
    \/ steps = 0 /\ \E w \in MathCoords : MathWorldToChunk(w)
    \/ steps = 0 /\ \E w \in MathCoords : MathWorldToLocal(w)
    \/ steps = 0 /\ \E w \in MathCoords : MathRoundTrip(w)
    \/ steps = 0 /\ \E l \in MathLocals : MathLocalToIndex(l)
    \/ steps = 0 /\ \E i \in MathIndices : MathIndexToLocal(i)
    \/ steps = 0 /\ \E cfg \in TerrainConfigs, c \in TerrainColumns : TerrainGetHeight(cfg, c)
    \/ steps = 0 /\ \E cfg \in TerrainConfigs, n \in (-NoiseScale)..NoiseScale : TerrainHeightFromNoise(cfg, n)
    \/ steps = 0 /\ \E cfg \in TerrainConfigs : \E w \in TerrainCoords(cfg) : TerrainIsCave(cfg, w)
    \/ steps = 0 /\ \E cfg \in TerrainConfigs : \E w \in TerrainCoords(cfg) : TerrainGetBlockAt(cfg, w)
    \/ steps = 0 /\ \E cfg \in TerrainConfigs, c \in TerrainColumns : TerrainSurfaceBlocks(cfg, c)

SpecPure == InitPure /\ [][NextPure]_vars

---------------------------------------------------------------------------
(* A block registry, driven by register and its lookups *)

\* number of calls on the registry in one behaviour
MaxRegistrySteps == 2

\* ids handed to the registry: air, a built-in solid id, an id no built-in
\* block has, and an id that is never registered
RegistryIds == {AIR_BLOCK, 1, 5}

RegistryLookupIds == RegistryIds \cup {FreshId}

\* names handed to the registry: two built-in names, a new one, and one that
\* is never registered
RegistryNames == {"air", "stone", "ore"}

RegistryLookupNames == RegistryNames \cup {"none"}

\* the definitions a caller can build from these with BlockDef::new
RegistryDefs ==
    {BlockDef_new(id, name, kind, 9) :
        id \in RegistryIds, name \in RegistryNames, kind \in {"Air", "Solid"}}

RegistryStep(r, op) ==
    /\ steps < MaxRegistrySteps
    /\ block_registry' = r
    /\ last' = op
    /\ steps' = steps + 1
    /\ UNCHANGED <<palette, chunk, manager, config>>

\* pos holds the definition registered
RegistryRegister(block) ==
    RegistryStep(BlockRegistry_register(block_registry, block),
                 Op("BlockRegistry::register", block, block.id, 0, 0, FALSE))

RegistryGetKind(id) ==
    RegistryStep(block_registry,
                 Op("BlockRegistry::get_kind", NoPos, id, 0,
                    BlockRegistry_get_kind(block_registry, id), FALSE))

RegistryIsSolid(id) ==
    RegistryStep(block_registry,
                 Op("BlockRegistry::is_solid", NoPos, id, 0,
                    BlockRegistry_is_solid(block_registry, id), FALSE))

RegistryIsAir(id) ==
    RegistryStep(block_registry,
                 Op("BlockRegistry::is_air", NoPos, id, 0,
                    BlockRegistry_is_air(block_registry, id), FALSE))

RegistryGet(id) ==
    RegistryStep(block_registry,
                 Op("BlockRegistry::get", NoPos, id, 0, BlockRegistry_get(block_registry, id), FALSE))

\* arg holds the name looked up
RegistryGetByName(name) ==
    RegistryStep(block_registry,
                 Op("BlockRegistry::get_by_name", NoPos, 0, name,
                    BlockRegistry_get_by_name(block_registry, name), FALSE))

InitRegistry ==
    /\ palette = Palette_new
    /\ chunk = Chunk_new(NoPos)
    /\ manager = ChunkManager_new
    /\ block_registry = BlockRegistry_new
    /\ config = ConfigHills
    /\ last = Op("start", NoPos, 0, 0, 0, FALSE)
    /\ steps = 0

NextRegistry ==
    \/ \E block \in RegistryDefs : RegistryRegister(block)
    \/ \E id \in RegistryLookupIds : RegistryGetKind(id)
    \/ \E id \in RegistryLookupIds : RegistryIsSolid(id)
    \/ \E id \in RegistryLookupIds : RegistryIsAir(id)
    \/ \E id \in RegistryLookupIds : RegistryGet(id)
    \/ \E name \in RegistryLookupNames : RegistryGetByName(name)

SpecRegistry == InitRegistry /\ [][NextRegistry]_vars

---------------------------------------------------------------------------
(* A palette on its own, driven by add_block *)

\* air, ids every pre-filled palette holds, and ids none of them holds
PaletteIds == {AIR_BLOCK, 1, 2, PALETTE_OVERFLOW, FreshId, FreshId + 1}

InitPalette ==
    /\ \E n \in Prefills : palette = PaletteAfter(n)
    /\ chunk = Chunk_new(NoPos)
    /\ manager = ChunkManager_new
    /\ block_registry = BlockRegistry_new
    /\ config = ConfigHills
    /\ last = Op("start", NoPos, 0, 0, 0, FALSE)
    /\ steps = 0

NextPalette == \E id \in PaletteIds : PaletteAddBlock(id)

SpecPalette == InitPalette /\ [][NextPalette]_vars

---------------------------------------------------------------------------
(* World-coordinate writes into an empty world and into generated terrain *)

\* number of writes in one behaviour
MaxWriteSteps == 2

\* the manager after generate_chunks_around((0, 0, 0), 1) on a new manager
GeneratedManager ==
    TerrainGenerator_generate_chunks_around(
        TerrainGenerator_new(ConfigHills), IVec3(0, 0, 0), 1, ChunkManager_new).manager

\* the positions written: those the manager is driven with elsewhere, and
\* neighbours of the origin on each axis
WriteProbes == WorldProbes \cup {IVec3(0, 1, 0), IVec3(0, 0, 1), IVec3(-1, 0, -1)}

WorldSetBlock(world_pos, block_id) ==
    LET r == ChunkManager_set_block(manager, world_pos, block_id)
    IN  /\ steps < MaxWriteSteps
        /\ manager' = r.manager
        /\ last' = Op("ChunkManager::set_block", world_pos, block_id, 0, 0, r.panicked)
        /\ steps' = steps + 1
        /\ UNCHANGED <<palette, chunk, block_registry, config>>

InitWrites ==
    /\ palette = Palette_new
    /\ chunk = Chunk_new(NoPos)
    /\ manager \in {ChunkManager_new, GeneratedManager}
    /\ block_registry = BlockRegistry_new
    /\ config = ConfigHills
    /\ last = Op("start", NoPos, 0, 0, 0, FALSE)
    /\ steps = 0

NextWrites == \E w \in WriteProbes, id \in InputIds : WorldSetBlock(w, id)

SpecWrites == InitWrites /\ [][NextWrites]_vars

---------------------------------------------------------------------------
(* Claims *)

InBounds(p) ==
    /\ p.x \in 0..(CHUNK_SIZE - 1)
    /\ p.y \in 0..(CHUNK_HEIGHT - 1)
    /\ p.z \in 0..(CHUNK_SIZE - 1)

\* C1: after an in-bounds Chunk::set_block(p, id) that did not overflow the
\* palette, Chunk::get_block(p) returns id.
C1_ChunkWriteRead ==
    (last.op = "Chunk::set_block" /\ InBounds(last.pos) /\ ~last.panicked)
        => Chunk_get_block(chunk, last.pos) = last.id

\* a new id written at the far corner of a chunk whose palette held one
\* free index
C1_Witness ==
    /\ last.op = "Chunk::set_block"
    /\ ~last.panicked
    /\ last.pos = IVec3(CHUNK_SIZE - 1, CHUNK_HEIGHT - 1, CHUNK_SIZE - 1)
    /\ last.id = FreshId
    /\ Palette_len(chunk.palette) = PALETTE_OVERFLOW

\* C2: Chunk::set_block at an out-of-bounds position changes nothing of the
\* chunk (voxels, palette, dirty flag), and get_block there returns air.
C2_OutOfBoundsNoOp ==
    [][(last'.op = "Chunk::set_block" /\ ~InBounds(last'.pos))
          => /\ chunk' = chunk
             /\ ~last'.panicked
             /\ Chunk_get_block(chunk', last'.pos) = AIR_BLOCK]_vars

\* an out-of-bounds write of an id the palette has never seen, on a clean
\* chunk that stays clean
C2_Witness ==
    /\ last.op = "Chunk::set_block"
    /\ ~InBounds(last.pos)
    /\ last.id = FreshId
    /\ Palette_get_palette_id(chunk.palette, FreshId) = None
    /\ ~Chunk_is_dirty(chunk)

\* C3: ChunkManager::get_block leaves the manager as it was (the loaded set,
\* the count and every chunk), and returns air when the owning chunk is not
\* loaded.
C3_ReadNeverCreates ==
    [][last'.op = "ChunkManager::get_block"
          => /\ manager' = manager
             /\ ChunkManager_chunk_count(manager') = ChunkManager_chunk_count(manager)
             /\ (world_to_chunk(last'.pos) \notin ChunkManager_loaded_chunks(manager)
                    => last'.ret = AIR_BLOCK)]_vars

\* a read at a position whose chunk is not loaded, in a manager that holds
\* other chunks
C3_Witness ==
    /\ last.op = "ChunkManager::get_block"
    /\ world_to_chunk(last.pos) \notin ChunkManager_loaded_chunks(manager)
    /\ ChunkManager_chunk_count(manager) >= 2
    /\ last.ret = AIR_BLOCK

\* C4: after ChunkManager::set_block(w, id) with 0 <= w.y < CHUNK_HEIGHT,
\* get_block(w) returns id, the chunk at world_to_chunk(w) is loaded, and the
\* chunk count grew by one if that chunk was absent and not at all otherwise.
C4_ManagerWriteRead ==
    [][(/\ last'.op = "ChunkManager::set_block"
        /\ last'.pos.y >= 0 /\ last'.pos.y < CHUNK_HEIGHT
        /\ ~last'.panicked)
          => /\ ChunkManager_get_block(manager', last'.pos).ret = last'.id
             /\ ChunkManager_get_chunk(manager', world_to_chunk(last'.pos)) # None
             /\ ChunkManager_chunk_count(manager')
                  = ChunkManager_chunk_count(manager)
                      + (IF world_to_chunk(last'.pos) \in DOMAIN manager THEN 0 ELSE 1)]_vars

\* a solid block written at negative x and z, into a manager that then holds
\* three chunks
C4_Witness ==
    /\ last.op = "ChunkManager::set_block"
    /\ last.pos.x < 0 /\ last.pos.z < 0
    /\ last.pos.y >= 0 /\ last.pos.y < CHUNK_HEIGHT
    /\ last.id # AIR_BLOCK
    /\ ChunkManager_chunk_count(manager) = 3

\* the chunk coordinates within max_radius of center on the x,z plane
WithinRadius(coords, center, max_radius) ==
    {p \in coords :
        (p.x - center.x) * (p.x - center.x) + (p.z - center.z) * (p.z - center.z)
            <= max_radius * max_radius}

\* C5: after unload_distant_chunks(center, max_radius) the loaded chunks are
\* exactly the ones that were loaded within max_radius of center on the x,z
\* plane, dirty or not, and the chunks kept are unmodified.
C5_UnloadKeepsExactlyTheNear ==
    [][last'.op = "ChunkManager::unload_distant_chunks"
          => /\ DOMAIN manager' = WithinRadius(DOMAIN manager, last'.pos, last'.arg)
             /\ \A p \in DOMAIN manager' : manager'[p] = manager[p]]_vars

\* an unload around a center off the y = 0 plane that dropped a dirty chunk
\* and kept a chunk lying exactly on the radius
C5_Witness ==
    /\ last.op = "ChunkManager::unload_distant_chunks"
    /\ last.pos.y # 0
    /\ last.arg > 0
    /\ last.ret >= 1
    /\ \E p \in DOMAIN manager :
          (p.x - last.pos.x) * (p.x - last.pos.x) + (p.z - last.pos.z) * (p.z - last.pos.z)
              = last.arg * last.arg

\* the chunk coordinates generate_chunks_around(center, radius) covers
Square(center, radius) ==
    {IVec3(x, 0, z) : x \in (center.x - radius)..(center.x + radius),
                      z \in (center.z - radius)..(center.z + radius)}

\* C6: generate_chunks_around(center, radius, manager) leaves every chunk
\* that was loaded as it was, loads every coordinate of the square and
\* nothing else, and every chunk it adds is clean.
C6_GenerateAroundKeepsExisting ==
    [][(last'.op = "TerrainGenerator::generate_chunks_around" /\ ~last'.panicked)
          => /\ \A p \in DOMAIN manager : p \in DOMAIN manager' /\ manager'[p] = manager[p]
             /\ DOMAIN manager' = DOMAIN manager \cup Square(last'.pos, last'.arg)
             /\ \A p \in DOMAIN manager' \ DOMAIN manager : ~Chunk_is_dirty(manager'[p])]_vars

\* a generation of radius 1 over a square that already held a dirty (edited)
\* chunk
C6_Witness ==
    /\ last.op = "TerrainGenerator::generate_chunks_around"
    /\ last.arg = 1
    /\ \E p \in Square(last.pos, last.arg) : p \in DOMAIN manager /\ Chunk_is_dirty(manager[p])
    /\ \E p \in Square(last.pos, last.arg) : p \in DOMAIN manager /\ ~Chunk_is_empty(manager[p])

\* C7: Chunk::new gives a clean chunk; an in-bounds set_block and a fill leave
\* the chunk dirty; mark_clean leaves it clean; and a dirty chunk stays dirty
\* through every other operation on it.
C7_DirtyLifecycle ==
    [][/\ last'.op = "Chunk::new" => ~Chunk_is_dirty(chunk')
       /\ (last'.op = "Chunk::set_block" /\ InBounds(last'.pos) /\ ~last'.panicked)
             => Chunk_is_dirty(chunk')
       /\ last'.op = "Chunk::fill" => Chunk_is_dirty(chunk')
       /\ last'.op = "Chunk::mark_clean" => ~Chunk_is_dirty(chunk')
       /\ (/\ Chunk_is_dirty(chunk)
           /\ last'.op \notin {"Chunk::mark_clean", "Chunk::new",
                               "TerrainGenerator::generate_chunk"})
             => Chunk_is_dirty(chunk')]_vars

\* air written over air: nothing but the dirty flag tells the chunk from a
\* new one
C7_Witness ==
    /\ last.op = "Chunk::set_block"
    /\ InBounds(last.pos)
    /\ last.id = AIR_BLOCK
    /\ chunk.palette = Palette_new
    /\ \A i \in 1..Len(chunk.voxels) : chunk.voxels[i] = 0
    /\ Chunk_is_dirty(chunk)

\* C8: the voxel array always has CHUNK_VOLUME entries, each of them an index
\* the chunk's palette holds.
C8_StorageInvariant ==
    /\ Len(chunk.voxels) = CHUNK_VOLUME
    /\ \A i \in 1..Len(chunk.voxels) :
          chunk.voxels[i] >= 0 /\ chunk.voxels[i] < Palette_len(chunk.palette)

\* a fill over a chunk whose voxels held indices of a longer palette
C8_Witness ==
    /\ last.op = "Chunk::fill"
    /\ last.id = FreshId
    /\ Palette_len(chunk.palette) = 2
    /\ \A i \in 1..Len(chunk.voxels) : chunk.voxels[i] = 1
    /\ steps = MaxSteps

Air0(p) ==
    /\ Palette_get_block(p, 0) = AIR_BLOCK
    /\ Palette_get_palette_id(p, AIR_BLOCK) = Some(0)

\* C9: index 0 of a palette is air, and air is at index 0, after any
\* add_block calls and, in a chunk, after any set_block and fill calls.
C9_IndexZeroIsAir == Air0(palette) /\ Air0(chunk.palette)

\* a palette after a successful add_block of a new id, beside a chunk just
\* filled with a solid block
C9_Witness ==
    /\ Palette_get_palette_id(palette, FreshId) # None
    /\ last.op = "Chunk::fill"
    /\ last.id # AIR_BLOCK
    /\ Palette_len(chunk.palette) = 2

\* C10: add_block of an id the palette holds returns the index the id sits
\* at (the one its first insertion returned), changes nothing, and does not
\* panic, full palette included.
C10_AddBlockIdempotent ==
    [][(last'.op = "Palette::add_block" /\ Palette_get_palette_id(palette, last'.id) # None)
          => /\ ~last'.panicked
             /\ last'.ret \in 0..(Palette_len(palette) - 1)
             /\ palette.id_to_block[last'.ret + 1] = last'.id
             /\ palette' = palette]_vars

\* a solid id added again to a full palette
C10_Witness ==
    /\ last.op = "Palette::add_block"
    /\ last.id = 1
    /\ last.ret = 1
    /\ ~last.panicked
    /\ Palette_len(palette) = PALETTE_OVERFLOW

\* C11: an add_block of an id the palette does not hold succeeds with the
\* next index (0..254, in insertion order) while the palette holds fewer than
\* 255 entries, and panics without touching the palette when it holds 255;
\* Chunk::set_block panics exactly when an in-bounds write brings a new id to
\* a palette of 255 entries, and then the chunk is as it was.
C11_OverflowBoundary ==
    [][/\ (last'.op = "Palette::add_block" /\ Palette_get_palette_id(palette, last'.id) = None)
             => /\ last'.panicked <=> (Palette_len(palette) = 255)
                /\ last'.panicked => palette' = palette
                /\ ~last'.panicked
                      => /\ last'.ret = Palette_len(palette)
                         /\ last'.ret \in 0..254
                         /\ palette'.id_to_block = Append(palette.id_to_block, last'.id)
                         /\ Palette_get_palette_id(palette', last'.id) = Some(last'.ret)
       /\ last'.op = "Chunk::set_block"
             => /\ last'.panicked <=> (/\ InBounds(last'.pos)
                                       /\ Palette_get_palette_id(chunk.palette, last'.id) = None
                                       /\ Palette_len(chunk.palette) = 255)
                /\ last'.panicked => chunk' = chunk
       /\ Palette_len(palette') <= 255 /\ Palette_len(chunk'.palette) <= 255]_vars

\* a new id refused by a chunk whose palette holds 255 entries, after the
\* same id was refused by a palette of 255 entries
C11_Witness ==
    /\ last.op = "Chunk::set_block"
    /\ last.panicked
    /\ last.id = FreshId
    /\ Palette_len(chunk.palette) = 255
    /\ Palette_len(palette) = 255
    /\ Palette_get_palette_id(palette, FreshId) = None
    /\ steps >= 2

\* C12: chunk_local_to_world(world_to_chunk(w), world_to_local(w)) = w for
\* every world position w, negative x and z and any y included.
C12_RoundTrip ==
    last.op = "chunk_local_to_world" => last.ret = last.pos

\* a round trip from negative x, past the first chunk on z, and below the
\* chunk on y
C12_Witness ==
    /\ last.op = "chunk_local_to_world"
    /\ last.pos.x < -CHUNK_SIZE
    /\ last.pos.z > CHUNK_SIZE
    /\ last.pos.y < 0

\* floor(a / b) for b > 0, from its defining inequality
Floor(a, b) == CHOOSE q \in (-Abs(a) - 1)..(Abs(a) + 1) : q * b <= a /\ a < (q + 1) * b

\* C13: world_to_chunk(w) is (floor(w.x / CHUNK_SIZE), 0, floor(w.z /
\* CHUNK_SIZE)); world_to_local(w) has x and z in [0, CHUNK_SIZE) and y =
\* w.y; world x = -1 lies in chunk -1 at local CHUNK_SIZE - 1, and world
\* x = -CHUNK_SIZE - 1 in chunk -2.
C13_EuclideanConversion ==
    /\ last.op = "world_to_chunk"
          => /\ last.ret = IVec3(Floor(last.pos.x, CHUNK_SIZE), 0, Floor(last.pos.z, CHUNK_SIZE))
             /\ last.pos.x = -1 => last.ret.x = -1
             /\ last.pos.x = -CHUNK_SIZE - 1 => last.ret.x = -2
    /\ last.op = "world_to_local"
          => /\ last.ret.x \in 0..(CHUNK_SIZE - 1)
             /\ last.ret.z \in 0..(CHUNK_SIZE - 1)
             /\ last.ret.y = last.pos.y
             /\ last.pos.x = -1 => last.ret.x = CHUNK_SIZE - 1

\* the chunk of a position one block past a whole chunk on the negative side
\* of x, at a y above the chunk height
C13_Witness ==
    /\ last.op = "world_to_chunk"
    /\ last.pos.x = -CHUNK_SIZE - 1
    /\ last.pos.z < 0
    /\ last.pos.y = CHUNK_HEIGHT
    /\ last.ret.x = -2

\* C14: local_to_index is none exactly outside the axis ranges and
\* y * CHUNK_SIZE^2 + z * CHUNK_SIZE + x inside them, below CHUNK_VOLUME;
\* index_to_local is none exactly from CHUNK_VOLUME on; and each undoes the
\* other where both are defined.
C14_IndexBijection ==
    /\ last.op = "local_to_index"
          => /\ (last.ret = None) <=> ~InBounds(last.pos)
             /\ last.ret # None
                   => /\ last.ret[1] = last.pos.y * CHUNK_SIZE * CHUNK_SIZE
                                         + last.pos.z * CHUNK_SIZE + last.pos.x
                      /\ last.ret[1] \in 0..(CHUNK_VOLUME - 1)
                      /\ index_to_local(last.ret[1]) = Some(last.pos)
    /\ last.op = "index_to_local"
          => /\ (last.ret = None) <=> (last.arg >= CHUNK_VOLUME)
             /\ last.ret # None
                   => /\ InBounds(last.ret[1])
                      /\ local_to_index(last.ret[1]) = Some(last.arg)

\* the last valid index, which is the far corner of the chunk
C14_Witness ==
    /\ last.op = "index_to_local"
    /\ last.arg = CHUNK_VOLUME - 1
    /\ last.ret = Some(IVec3(CHUNK_SIZE - 1, CHUNK_HEIGHT - 1, CHUNK_SIZE - 1))

\* C15: block id 0 resolves to the Air kind in every registry that register
\* calls can reach: get_kind(0) is Air, is_air(0) holds and is_solid(0) does
\* not.
C15_AirIdIsAirKind ==
    /\ BlockRegistry_get_kind(block_registry, AIR_BLOCK) = "Air"
    /\ BlockRegistry_is_air(block_registry, AIR_BLOCK)
    /\ ~BlockRegistry_is_solid(block_registry, AIR_BLOCK)
    /\ (last.op = "BlockRegistry::get_kind" /\ last.id = AIR_BLOCK) => last.ret = "Air"
    /\ (last.op = "BlockRegistry::is_solid" /\ last.id = AIR_BLOCK) => last.ret = FALSE
    /\ (last.op = "BlockRegistry::is_air" /\ last.id = AIR_BLOCK) => last.ret = TRUE

\* the names of the definitions the registry stores
StoredNames(registry) == {registry.blocks[id].name : id \in DOMAIN registry.blocks}

\* C16: after any register calls no two stored definitions share a name, and
\* a definition d that get_by_name(n) returns has d.name = n and is the one
\* get(d.id) returns.
C16_NamesUniqueAndConsistent ==
    /\ \A a, b \in DOMAIN block_registry.blocks :
          a # b => block_registry.blocks[a].name # block_registry.blocks[b].name
    /\ \A n \in RegistryLookupNames \cup StoredNames(block_registry) :
          LET found == BlockRegistry_get_by_name(block_registry, n)
          IN  found # None
                 => /\ found[1].name = n
                    /\ BlockRegistry_get(block_registry, found[1].id) = found

\* the block the priority list of C17 gives at position w under configuration
\* cfg, with the cave test spelled out: 5 < y < max_height - 5 and
\* |caveNoise| < cave_threshold
PriorityBlock(cfg, w) ==
    LET gen == TerrainGenerator_new(cfg)
        height == TerrainGenerator_get_height(gen, w.x, w.z)
        caveNoise == PerlinGet(gen.cave_noise,
                               <<w.x * cfg.cave_frequency,
                                 TruncDiv(w.y * cfg.cave_frequency, 2),
                                 w.z * cfg.cave_frequency>>)
        cave == 5 < w.y /\ w.y < cfg.max_height - 5 /\ Abs(caveNoise) < cfg.cave_threshold
    IN  IF w.y > height THEN BlockDef_air.id
        ELSE IF cave THEN BlockDef_air.id
        ELSE IF w.y <= 0 THEN BlockDef_stone.id
        ELSE IF w.y = height THEN BlockDef_grass.id
        ELSE IF w.y >= height - 3 THEN BlockDef_dirt.id
        ELSE BlockDef_stone.id

\* C17: get_block_at returns the first match of: air above height(x, z); air
\* in a cave; stone at y <= 0; grass at y = height(x, z); dirt at
\* y >= height(x, z) - 3; stone otherwise.
C17_BlockPriority ==
    last.op = "TerrainGenerator::get_block_at" => last.ret = PriorityBlock(config, last.pos)

\* air returned for a cave that lies in the dirt band under the surface
C17_Witness ==
    /\ last.op = "TerrainGenerator::get_block_at"
    /\ last.ret = BlockDef_air.id
    /\ LET height == TerrainGenerator_get_height(TerrainGenerator_new(config),
                                                 last.pos.x, last.pos.z)
       IN  last.pos.y < height /\ last.pos.y >= height - 3

C19_HeightBounds ==
    (/\ last.op \in {"TerrainGenerator::get_height", "TerrainGenerator::get_height (noise value)"}
     /\ config.max_height >= 0)
        => last.ret \in 0..config.max_height

\* the largest noise value on steep ground, cut off at max_height
C19_Witness ==
    /\ last.op = "TerrainGenerator::get_height (noise value)"
    /\ last.arg = NoiseScale
    /\ config.sea_level + F64AsI32(last.arg * config.height_scale) > config.max_height
    /\ last.ret = config.max_height

\* the ids get_block_at can return
TerrainIds == {BlockDef_air.id, BlockDef_stone.id, BlockDef_dirt.id, BlockDef_grass.id}

\* C20: generate_chunk(c) returns a chunk at position c that is not dirty,
\* whose block at every in-bounds local position (lx, ly, lz) is
\* get_block_at((c.x * CHUNK_SIZE + lx, ly, c.z * CHUNK_SIZE + lz)), and whose
\* palette holds only air, stone, dirt and grass, so that the call does not
\* overflow the palette.
C20_GenerateChunk ==
    last.op = "TerrainGenerator::generate_chunk"
        => /\ ~last.panicked
           /\ chunk.position = last.pos
           /\ ~Chunk_is_dirty(chunk)
           /\ \A l \in LocalPositions :
                 Chunk_get_block(chunk, l)
                   = TerrainGenerator_get_block_at(
                         TerrainGenerator_new(config),
                         IVec3(last.pos.x * CHUNK_SIZE + l.x, l.y, last.pos.z * CHUNK_SIZE + l.z))
           /\ \A i \in 1..Palette_len(chunk.palette) :
                 chunk.palette.id_to_block[i] \in TerrainIds
           /\ Palette_len(chunk.palette) <= Cardinality(TerrainIds)

\* a chunk away from the origin that holds all four blocks, with a column
\* whose surface a cave has taken: its topmost solid block is not grass
C20_Witness ==
    /\ last.op = "TerrainGenerator::generate_chunk"
    /\ last.pos.x # 0
    /\ Palette_len(chunk.palette) = 4
    /\ \E l \in LocalPositions :
          /\ l.y >= 5
          /\ Chunk_get_block(chunk, l) \notin {AIR_BLOCK, BlockDef_grass.id}
          /\ \A y \in (l.y + 1)..(CHUNK_HEIGHT - 1) :
                Chunk_get_block(chunk, IVec3(l.x, y, l.z)) = AIR_BLOCK

\* C22: after Chunk::fill(id), whatever the chunk held, get_block returns id
\* at every in-bounds position, the palette is air followed by id (air alone
\* when id is air, and then is_empty() holds), no id the palette had gathered
\* is left in it, and the chunk is dirty.
C22_FillResets ==
    [][last'.op = "Chunk::fill"
          => /\ \A p \in LocalPositions : Chunk_get_block(chunk', p) = last'.id
             /\ chunk'.palette.id_to_block
                   = (IF last'.id = AIR_BLOCK THEN <<AIR_BLOCK>> ELSE <<AIR_BLOCK, last'.id>>)
             /\ DOMAIN chunk'.palette.block_to_id = {AIR_BLOCK, last'.id}
             /\ \A id \in DOMAIN chunk.palette.block_to_id \ {AIR_BLOCK, last'.id} :
                   Palette_get_palette_id(chunk'.palette, id) = None
             /\ Chunk_is_empty(chunk') <=> (last'.id = AIR_BLOCK)
             /\ Chunk_is_dirty(chunk')
             /\ ~last'.panicked]_vars

\* a fill with a new id as the first operation on a chunk whose palette was
\* full: two entries are left of 255
C22_Witness ==
    /\ last.op = "Chunk::fill"
    /\ last.id = FreshId
    /\ steps = 1
    /\ Palette_len(palette) = PALETTE_OVERFLOW
    /\ Palette_len(chunk.palette) = 2
    /\ Chunk_get_block(chunk, IVec3(CHUNK_SIZE - 1, CHUNK_HEIGHT - 1, CHUNK_SIZE - 1)) = FreshId

\* the palette of chunk c is kept, in order, at the front of the palette of d
PaletteKept(c, d) ==
    /\ Palette_len(c.palette) <= Palette_len(d.palette)
    /\ \A i \in 0..(Palette_len(c.palette) - 1) :
          Palette_get_block(d.palette, i) = Palette_get_block(c.palette, i)

\* C23: whatever the order in which get_or_create_chunk and set_block calls
\* for one chunk coordinate reach the manager (each call one step), the
\* manager holds one chunk for the coordinate, stored under its own
\* position; get_or_create_chunk on a loaded coordinate changes nothing, and
\* on an absent one adds a new chunk and nothing else; set_block on a loaded
\* chunk keeps every other voxel, the palette entries and a set dirty flag.
C23_OneChunkPerCoordinate ==
    [][/\ \A p \in DOMAIN manager' : manager'[p].position = p
       /\ last'.op = "ChunkManager::get_or_create_chunk"
             => /\ last'.pos \in DOMAIN manager => manager' = manager
                /\ last'.pos \notin DOMAIN manager
                      => /\ DOMAIN manager' = DOMAIN manager \cup {last'.pos}
                         /\ manager'[last'.pos] = Chunk_new(last'.pos)
                         /\ \A p \in DOMAIN manager : manager'[p] = manager[p]
       /\ (/\ last'.op = "ChunkManager::set_block"
           /\ world_to_chunk(last'.pos) \in DOMAIN manager
           /\ ~last'.panicked)
             => LET cp == world_to_chunk(last'.pos)
                IN  /\ DOMAIN manager' = DOMAIN manager
                    /\ \A p \in DOMAIN manager \ {cp} : manager'[p] = manager[p]
                    /\ LET index == local_to_index(world_to_local(last'.pos))
                       IN  manager'[cp].voxels
                             = (IF index = None
                                THEN manager[cp].voxels
                                ELSE [manager[cp].voxels EXCEPT
                                        ![index[1] + 1] = manager'[cp].voxels[index[1] + 1]])
                    /\ PaletteKept(manager[cp], manager'[cp])
                    /\ Chunk_is_dirty(manager[cp]) => Chunk_is_dirty(manager'[cp])]_vars

\* two writes into one chunk, then a get_or_create_chunk for its coordinate:
\* one chunk is loaded, and both writes are still there
C23_Witness ==
    /\ last.op = "ChunkManager::get_or_create_chunk"
    /\ last.pos = IVec3(0, 0, 0)
    /\ steps = 3
    /\ ChunkManager_chunk_count(manager) = 1
    /\ ChunkManager_get_block(manager, IVec3(0, 0, 0)).ret = 1
    /\ ChunkManager_get_block(manager, IVec3(CHUNK_SIZE - 1, 1, 0)).ret = 1
    /\ Chunk_is_dirty(manager[IVec3(0, 0, 0)])

\* every voxel of chunk c resolves to air
AllAir(c) == \A p \in LocalPositions : Chunk_get_block(c, p) = AIR_BLOCK

C25_OutOfRangeWriteIgnored ==
    [][(/\ last'.op = "ChunkManager::set_block"
        /\ (last'.pos.y < 0 \/ last'.pos.y >= CHUNK_HEIGHT))
          => /\ ChunkManager_loaded_chunks(manager') = ChunkManager_loaded_chunks(manager)
             /\ ChunkManager_chunk_count(manager') = ChunkManager_chunk_count(manager)
             /\ \A p \in DOMAIN manager : \A q \in LocalPositions :
                   Chunk_get_block(manager'[p], q) = Chunk_get_block(manager[p], q)
             /\ ChunkManager_dirty_chunks(manager') = ChunkManager_dirty_chunks(manager)]_vars

\* the largest value of a palette index (a u8)
MaxPaletteIndex == 255

\* no id sits at two indices of p, the two maps of p are inverse to each
\* other, and an index past the end resolves to air
PaletteBijective(p) ==
    /\ Cardinality({p.id_to_block[i] : i \in 1..Len(p.id_to_block)}) = Palette_len(p)
    /\ \A i \in 0..(Palette_len(p) - 1) :
          Palette_get_palette_id(p, Palette_get_block(p, i)) = Some(i)
    /\ \A id \in DOMAIN p.block_to_id :
          /\ p.block_to_id[id] \in 0..(Palette_len(p) - 1)
          /\ Palette_get_block(p, p.block_to_id[id]) = id
    /\ \A i \in Palette_len(p)..MaxPaletteIndex : Palette_get_block(p, i) = AIR_BLOCK

\* C26: after any add_block calls no id occupies two palette indices,
\* get_palette_id(get_block(i)) is i for every index i below the length,
\* get_block(get_palette_id(id)) is id for every id the palette holds, and an
\* index at or past the length resolves to air.
C26_PaletteUniqueness == PaletteBijective(palette)

\* a new id that took the last free index, added again after another new id
\* was refused
C26_Witness ==
    /\ last.op = "Palette::add_block"
    /\ last.id = FreshId
    /\ last.ret = PALETTE_OVERFLOW - 1
    /\ ~last.panicked
    /\ steps = MaxSteps
    /\ Palette_len(palette) = PALETTE_OVERFLOW
    /\ Palette_get_palette_id(palette, FreshId + 1) = None
    /\ Palette_get_palette_id(palette, PALETTE_OVERFLOW) = None

\* the integers nearest to the value scaled / NoiseScale (two of them when
\* the value lies half way)
NearestIntegers(scaled) ==
    {r \in (F64AsI32(scaled) - 1)..(F64AsI32(scaled) + 1) :
        2 * Abs(r * NoiseScale - scaled) <= NoiseScale}

\* C27: get_height is clamp(sea_level + round(n * height_scale), 0,
\* max_height) for the noise value n, the product being rounded to the
\* nearest integer, for positive and negative n.
C27_HeightRounds ==
    last.op = "TerrainGenerator::get_height (noise value)"
        => \E r \in NearestIntegers(last.arg * config.height_scale) :
              last.ret = Clamp(config.sea_level + r, 0, config.max_height)

\* the world positions around w: the six neighbours, the same local position
\* one chunk further on x and on z, the position mirrored through the origin,
\* and the positions the manager is driven with
WorldAround(w) ==
    {IVec3(w.x + d, w.y, w.z) : d \in {-1, 1, -CHUNK_SIZE, CHUNK_SIZE}}
      \cup {IVec3(w.x, w.y + d, w.z) : d \in {-1, 1}}
      \cup {IVec3(w.x, w.y, w.z + d) : d \in {-1, 1, -CHUNK_SIZE, CHUNK_SIZE}}
      \cup {IVec3(-w.x - 1, w.y, -w.z - 1)}
      \cup WorldProbes

\* C28: ChunkManager::set_block(w, id) leaves get_block(w2) as it was at
\* every world position w2 other than w, in the chunk of w, across a chunk
\* border and at negative coordinates; and the Chunk::set_block(p, id) it
\* makes leaves Chunk::get_block(q) as it was at every local position q
\* other than p.
C28_WriteIsolation ==
    [][last'.op = "ChunkManager::set_block"
          => LET cp == world_to_chunk(last'.pos)
             IN  /\ \A w2 \in WorldAround(last'.pos) \ {last'.pos} :
                       ChunkManager_get_block(manager', w2).ret
                         = ChunkManager_get_block(manager, w2).ret
                 /\ \A p \in DOMAIN manager \ {cp} : manager'[p] = manager[p]
                 /\ \A q \in LocalPositions \ {world_to_local(last'.pos)} :
                       Chunk_get_block(manager'[cp], q)
                         = (IF cp \in DOMAIN manager
                            THEN Chunk_get_block(manager[cp], q)
                            ELSE AIR_BLOCK)]_vars

\* air written into generated terrain at negative x, after a new id was
\* written across the chunk border: the new id is still there, and so are
\* the other solid blocks of the chunk dug into
C28_Witness ==
    /\ last.op = "ChunkManager::set_block"
    /\ last.pos = IVec3(-1, 0, 0)
    /\ last.id = AIR_BLOCK
    /\ steps = 2
    /\ ChunkManager_get_block(manager, IVec3(0, 0, 0)).ret = FreshId
    /\ ChunkManager_get_block(manager, IVec3(-2, 0, 0)).ret # AIR_BLOCK
    /\ Chunk_count_solid_blocks(manager[IVec3(-1, 0, 0)])
          = Chunk_count_solid_blocks(GeneratedManager[IVec3(-1, 0, 0)]) - 1

=====================
